---- MODULE Spec2Model ----
(***************************************************************************)
(* Model of the litigation RAG pipeline: ingest.py (process_document,      *)
(* main) with chunker.py (chunk_batch_into_propositions), index.py         *)
(* (is_junk, embed_and_index_documents) and query.py (main,                *)
(* generate_response).                                                     *)
(*                                                                         *)
(* Python values are tagged records: [t |-> "none"], [t |-> "int", v],     *)
(* [t |-> "str", v] (v a sequence of one-character strings),               *)
(* [t |-> "list", v], [t |-> "dict", v] (v a record of the keys the        *)
(* program reads; a key the dict does not hold is PyAbsent).               *)
(***************************************************************************)
EXTENDS Integers, Sequences, FiniteSets, TLC

VARIABLES
    \* ---- index.py: embed_and_index_documents
    ix_pc,                  \* "idle" | "file" | "clean" | "batch" | "next" | "done" |
                            \* "crashed"
    json_files,             \* line 40: the listing of processed_documents
    file_i,                 \* position of the for loop of line 46 (1-based)
    chunks,                 \* line 52: the parsed file, while line 46 is on it
    cleaned_chunks,         \* line 64
    batch_i,                \* the i of line 75
    total_vectors_added,    \* line 43
    skipped_files_count,    \* line 44
    add_call,               \* the chroma_collection.add call of the latest step
    records_passed,         \* number of records handed to chroma_collection.add
    ids_passed,             \* history: the ids handed to chroma_collection.add, in order
    attempts,               \* batches of the current file tried so far
    files_opened,           \* how many files the loop of line 46 reached
    propositions_seen,      \* history: entries of the files cleaned so far
    junk_seen,              \* history: those of them is_junk classifies as junk
    failed_entries,         \* history: entries of the batches that raised (line 112)
    last_file,              \* history: what the latest file held and how it ended
    \* ---- ingest.py: main, process_document
    ig_pc,                  \* "idle" | "doc" | "batch" | "save" | "done"
    pdf_files,              \* line 77: the listing of source_documents
    doc_i,                  \* position of the for loop of line 80 (1-based)
    elements,               \* line 22
    elem_i,                 \* elements the loop of line 36 has consumed
    all_propositions,       \* line 33
    origins,                \* history: how each of all_propositions found its element
    r2_client,              \* line 71: TRUE when a client is configured
    chunker_calls,          \* history: the chunker calls made for the current document
    batch_results,          \* history: what each of these calls returned, in call order
    last_call,              \* history: the chunker call of the latest step
    uploads,                \* history: the files handed to upload_to_r2
    docs_started,           \* history: how many documents line 82 was called for
    last_doc,               \* history: the latest document and how it ended
    \* ---- the processed_documents directory
    dir,                    \* name -> JSON text of the files ingest.py wrote
    dir_origins,            \* history: name -> the origins of the entries written
    dir_foreign,            \* the directory may hold files of any other origin
    \* ---- query.py: main, generate_response
    q_pc,                   \* "idle" | "load" | "connect" | "embed" | "query" |
                            \* "retrieved" | "done" | "crashed"
    q_debug,                \* args.debug
    q_num_results,          \* args.num_results
    collection,             \* the metadata records the collection holds
    results,                \* line 85: results['metadatas'][0]
    llm_calls,              \* the contexts requests.post of line 41 was called with
    final_answer,           \* line 117
    q_exit                  \* history: how main ended

ix_vars == <<ix_pc, json_files, file_i, chunks, cleaned_chunks, batch_i,
             total_vectors_added, skipped_files_count, add_call, records_passed,
             ids_passed, attempts, files_opened, propositions_seen, junk_seen,
             failed_entries, last_file>>

ig_vars == <<ig_pc, pdf_files, doc_i, elements, elem_i, all_propositions, origins,
             r2_client, chunker_calls, batch_results, last_call, uploads, docs_started,
             last_doc>>

fs_vars == <<dir, dir_origins, dir_foreign>>

q_vars == <<q_pc, q_debug, q_num_results, collection, results, llm_calls,
            final_answer, q_exit>>

vars == <<ix_vars, ig_vars, fs_vars, q_vars>>

----------------------------------------------------------------------------
(* Bounds of the model *)

\* most entries in one processed JSON file
MaxChunks == 3
\* most elements partition_pdf yields for one document
MaxElements == 3
\* most items in one "propositions" array of the LLM drawn from ItemPool
MaxItems == 1
\* ingest.py:9 sets BATCH_SIZE = 10; the model batches by 2 so that a document
\* of MaxElements elements spans more than one batch
INGEST_BATCH_SIZE == 2
\* index.py:12 sets BATCH_SIZE = 50; the model batches by 2 so that a file of
\* MaxChunks entries spans more than one batch
INDEX_BATCH_SIZE == 2
\* largest -n / --num_results given to query.py
MaxNumResults == 3
\* most records in the collection when query.py runs
MaxStored == 3

----------------------------------------------------------------------------
(* Python values *)

PyNone == [t |-> "none"]
PyAbsent == [t |-> "absent"]
PyInt(n) == [t |-> "int", v |-> n]
PyStr(s) == [t |-> "str", v |-> s]
PyList(s) == [t |-> "list", v |-> s]
PyDict(d) == [t |-> "dict", v |-> d]

\* bool(x)
Truthy(x) ==
    CASE x.t = "none" -> FALSE
      [] x.t = "int" -> x.v # 0
      [] x.t = "str" -> x.v # <<>>
      [] x.t = "list" -> x.v # <<>>
      [] x.t = "dict" -> \E k \in DOMAIN x.v : x.v[k] # PyAbsent
      [] OTHER -> TRUE

\* d.get(key, default) on a dict
GetOr(d, key, default) ==
    IF key \in DOMAIN d.v /\ d.v[key] # PyAbsent THEN d.v[key] ELSE default

\* d.get(key)
Get(d, key) == GetOr(d, key, PyNone)

MinOf(S) == CHOOSE x \in S : \A y \in S : x <= y
MaxOf(S) == CHOOSE x \in S : \A y \in S : x >= y

SeqsUpTo(S, n) == UNION {[1..k -> S] : k \in 0..n}

\* str.strip(): whitespace removed at both ends
Whitespace == {" ", "\n", "\t"}
Strip(s) ==
    LET keep == {k \in 1..Len(s) : s[k] \notin Whitespace}
    IN  IF keep = {} THEN <<>> ELSE SubSeq(s, MinOf(keep), MaxOf(keep))

\* str(k) for k >= 0
RECURSIVE Digits(_)
Digits(k) ==
    LET d == <<"0", "1", "2", "3", "4", "5", "6", "7", "8", "9">>[(k % 10) + 1]
    IN  IF k < 10 THEN <<d>> ELSE Digits(k \div 10) \o <<d>>

\* os.path.splitext(name)[0]: the name up to its last dot (a leading dot is
\* part of the stem)
Stem(name) ==
    LET dots == {k \in 2..Len(name) : name[k] = "."}
    IN  IF dots = {} THEN name ELSE SubSeq(name, 1, MaxOf(dots) - 1)

----------------------------------------------------------------------------
(* Texts and file names, as character sequences *)

\* 11 characters, nothing the filter looks for
TGood == <<"c", "o", "u", "r", "t", " ", "r", "u", "l", "e", "d">>
\* another clean text
TOther == <<"a", "p", "p", "e", "a", "l", " ", "f", "a", "i", "l", "e", "d">>
\* shorter than 10 characters
TShort == <<"a", "b", "c">>
\* 10 characters, 3 once stripped
TPadded == <<" ", " ", "a", "b", "c", " ", " ", " ", " ", " ">>
\* a [..] placeholder
TBracket == <<"s", "e", "e", " ", "[", "x", "]", " ", "n", "o", "w">>
\* a {..} placeholder
TBrace == <<"t", "e", "r", "m", " ", "{", "y", "}", " ", "o", "k">>
\* a page-number artifact, 10 characters
TPage == <<"(", "P", "a", "g", "e", ":", " ", "1", "2", ")">>
\* a [..] pair with a line break inside
TBracketNL == <<"s", "e", "e", " ", "[", "a", "\n", "b", "]", " ", "x">>
\* a (Page: ..) form with a line break inside
TPageNL == <<"(", "P", "a", "g", "e", ":", " ", "1", "\n", "2", ")">>
\* brackets that open after they close
TReversed == <<"]", " ", "n", "o", " ", "p", "a", "i", "r", " ", "[">>
\* the empty string
TEmpty == <<>>
\* a part of TGood
TCourt == <<"c", "o", "u", "r", "t">>
PdfA == <<"a", ".", "p", "d", "f">>
PdfAB == <<"a", ".", "b", ".", "P", "D", "F">>
JsonSuffix == <<".", "j", "s", "o", "n">>
NameA == <<"a", ".", "j", "s", "o", "n">>
\* two dots: the stem is a.b
NameAB == <<"a", ".", "b", ".", "j", "s", "o", "n">>
\* a document name
DocA == <<"a", ".", "p", "d", "f">>
\* chunker.py:68, the default file name
Unknown == <<"u", "n", "k", "n", "o", "w", "n">>

----------------------------------------------------------------------------
(* index.py: is_junk *)

\* re.search(open .* close, s): '.' matches no newline
ReSearchPair(s, open, close) ==
    \E a \in 1..Len(s) : \E b \in (a + 1)..Len(s) :
        /\ s[a] = open
        /\ s[b] = close
        /\ \A k \in (a + 1)..(b - 1) : s[k] # "\n"

PagePrefix == <<"(", "P", "a", "g", "e", ":", " ">>

\* re.match(r'^\(Page: .*\)$', s): '$' matches at the end and before a final
\* newline, '.' matches no newline
ReMatchPage(s) ==
    \E e \in {Len(s) - 1, Len(s)} :
        /\ e > Len(PagePrefix)
        /\ e = Len(s) \/ s[Len(s)] = "\n"
        /\ SubSeq(s, 1, Len(PagePrefix)) = PagePrefix
        /\ s[e] = ")"
        /\ \A k \in (Len(PagePrefix) + 1)..(e - 1) : s[k] # "\n"

\* is_junk with the brace alternative of line 24 left out
is_junk_brackets_only(text) ==
    IF ~Truthy(text) \/ text.t # "str" THEN TRUE
    ELSE \/ Len(Strip(text.v)) < 10
         \/ ReSearchPair(text.v, "[", "]")
         \/ ReMatchPage(Strip(text.v))

is_junk(text) ==
    IF ~Truthy(text) \/ text.t # "str" THEN TRUE
    ELSE \/ Len(Strip(text.v)) < 10
         \/ ReSearchPair(text.v, "[", "]")
         \/ ReSearchPair(text.v, "{", "}")
         \/ ReMatchPage(Strip(text.v))

----------------------------------------------------------------------------
(* json.dump / json.load of the processed files: ingest.py:56, index.py:52 *)

JNull == [j |-> "null"]
JMissing == [j |-> "missing"]

\* a str, an int or None as JSON text
json_dump_scalar(x) ==
    CASE x.t = "none" -> JNull
      [] x.t = "int" -> [j |-> "number", v |-> x.v]
      [] x.t = "str" -> [j |-> "string", v |-> x.v]
      [] OTHER -> JMissing

json_load_scalar(x) ==
    CASE x.j = "null" -> PyNone
      [] x.j = "number" -> PyInt(x.v)
      [] x.j = "string" -> PyStr(x.v)
      [] OTHER -> PyAbsent

\* ingest.py:56: a list of dicts of scalars becomes an array of objects
json_dump(props) ==
    [j |-> "array",
     v |-> [k \in 1..Len(props) |->
              [j |-> "object",
               v |-> [key \in DOMAIN props[k].v |-> json_dump_scalar(props[k].v[key])]]]]

\* index.py:52 on a file ingest.py wrote
json_load(text) ==
    PyList([k \in 1..Len(text.v) |->
              PyDict([key \in DOMAIN text.v[k].v |-> json_load_scalar(text.v[k].v[key])])])

----------------------------------------------------------------------------
(* Processed JSON files as index.py may find them *)

Entry(text, doc, page) ==
    PyDict([text |-> text, document_name |-> doc, page_number |-> page])

\* entries that differ in their text
TextEntries ==
    {Entry(PyStr(t), PyStr(DocA), PyInt(1)) : t \in {TGood, TShort, TBracket, TBracketNL}}

PageEntries ==
    {Entry(PyStr(t), PyStr(DocA), PyInt(2)) : t \in {TGood, TPage, TPageNL, TPadded}}

BraceEntries ==
    {Entry(PyStr(t), PyStr(DocA), PyInt(2)) : t \in {TOther, TBrace, TReversed}}

\* entries that differ in their metadata
MetaEntries ==
    {Entry(PyStr(TGood), PyStr(DocA), PyInt(3)),
     Entry(PyStr(TGood), PyNone, PyNone),
     Entry(PyStr(TOther), PyAbsent, PyAbsent),
     Entry(PyStr(TOther), PyStr(Unknown), PyInt(0))}

\* entries with no usable text, and entries that are no JSON object
OddEntries ==
    {Entry(PyStr(TGood), PyStr(DocA), PyInt(1)),
     Entry(PyAbsent, PyStr(DocA), PyInt(1)),
     Entry(PyInt(7), PyNone, PyNone),
     PyStr(TGood)}

EntryPools == {TextEntries, PageEntries, BraceEntries, MetaEntries, OddEntries}

FileContents ==
    UNION {SeqsUpTo(P, MaxChunks) : P \in EntryPools}

\* what json.load may return: an array of entries, or any other JSON value
FileValues ==
    {PyList(c) : c \in FileContents}
        \cup {PyNone, PyInt(5), PyDict([text |-> PyStr(TGood)])}

\* open + json.load, lines 51-52: the parsed value, or the exception raised
ReadResult(kind, value) == [kind |-> kind, value |-> value]

ReadOutcomes ==
    {ReadResult(k, PyNone) : k \in {"JSONDecodeError", "IOError", "UnicodeDecodeError"}}
        \cup {ReadResult("ok", v) : v \in FileValues}

FileNamePool == {NameA, NameAB}

\* os.listdir filtered on '.json': distinct names, in any order
Listings ==
    {l \in SeqsUpTo(FileNamePool, Cardinality(FileNamePool)) :
        \A a, b \in 1..Len(l) : a # b => l[a] # l[b]}

----------------------------------------------------------------------------
(* index.py: embed_and_index_documents *)

NoFile == [name |-> <<>>, kind |-> "none", status |-> "none", n_clean |-> 0, n_junk |-> 0]
\* history: source, the entries the call was built from, and origins, how
\* the chunker found the element of each (when ingest.py wrote the file)
NoAdd == [ids |-> <<>>, metadatas |-> <<>>, source |-> <<>>, origins |-> <<>>]

\* the exceptions line 53 catches
CaughtOnRead == {"JSONDecodeError", "IOError"}

\* chunk.get raises AttributeError on anything but a dict; iterating a
\* non-empty value that is no list yields no dict either (or raises TypeError)
CleaningRaises(cs) ==
    IF cs.t # "list" THEN TRUE
    ELSE \E k \in 1..Len(cs.v) : cs.v[k].t # "dict"

\* line 64
CleanChunks(cs) ==
    LET keep(chunk) == ~is_junk(Get(chunk, "text"))
    IN  SelectSeq(cs, keep)

\* history: the positions in the file of the entries line 64 keeps
RECURSIVE KeptPositions(_, _)
KeptPositions(cs, k) ==
    IF k > Len(cs) THEN <<>>
    ELSE (IF is_junk(Get(cs[k], "text")) THEN <<>> ELSE <<k>>) \o KeptPositions(cs, k + 1)

\* the entries of a file that is_junk classifies as junk
JunkCount(cs) ==
    Cardinality({k \in 1..Len(cs) : is_junk(Get(cs[k], "text"))})

\* line 76 with the slice one entry short
BatchAt_short(cs, i) ==
    SubSeq(cs, i + 1,
           IF i + INDEX_BATCH_SIZE < Len(cs) THEN i + INDEX_BATCH_SIZE - 1 ELSE Len(cs))

\* line 76
BatchAt(cs, i) ==
    SubSeq(cs, i + 1,
           IF i + INDEX_BATCH_SIZE < Len(cs) THEN i + INDEX_BATCH_SIZE ELSE Len(cs))

\* line 80 with j in place of i+j
BatchIds_from_zero(file_name, i, batch) ==
    [j \in 1..Len(batch) |-> Stem(file_name) \o <<"_">> \o Digits(j - 1)]

\* line 80
BatchIds(file_name, i, batch) ==
    [j \in 1..Len(batch) |-> Stem(file_name) \o <<"_">> \o Digits(i + (j - 1))]

\* lines 83-89
MetaRaw(chunk) ==
    [document_name |-> Get(chunk, "document_name"),
     page_number |-> Get(chunk, "page_number"),
     text |-> Get(chunk, "text")]

\* lines 92-100 without the page_number case of line 95
CleanMeta_no_page_case(meta) ==
    [key \in DOMAIN meta |-> IF meta[key] = PyNone THEN PyStr(<<>>) ELSE meta[key]]

\* lines 92-100
CleanMeta(meta) ==
    [key \in DOMAIN meta |->
        IF meta[key] = PyNone
        THEN IF key = "page_number" THEN PyInt(0) ELSE PyStr(<<>>)
        ELSE meta[key]]

\* lines 83-101
MetadatasClean(batch) == [j \in 1..Len(batch) |-> CleanMeta(MetaRaw(batch[j]))]

\* the for loop of line 46 moves on (chunks and cleaned_chunks are rebound
\* before they are read again)
ToNextFile ==
    /\ file_i' = file_i + 1
    /\ ix_pc' = IF file_i + 1 > Len(json_files) THEN "done" ELSE "file"
    /\ chunks' = PyNone
    /\ cleaned_chunks' = <<>>
    /\ batch_i' = 0

\* lines 36-44
IndexStart ==
    /\ ix_pc = "idle"
    /\ \/ \* the directory does not exist: line 38
          /\ dir_foreign
          /\ json_files' = <<>>
          /\ ix_pc' = "done"
       \/ /\ IF dir_foreign
             THEN json_files' \in Listings
             ELSE /\ json_files' \in [1..Cardinality(DOMAIN dir) -> DOMAIN dir]
                  /\ \A a, b \in 1..Len(json_files') : a # b => json_files'[a] # json_files'[b]
          /\ ix_pc' = IF json_files' = <<>> THEN "done" ELSE "file"
    /\ file_i' = 1
    /\ UNCHANGED <<chunks, cleaned_chunks, batch_i, total_vectors_added,
                   skipped_files_count, add_call, records_passed, ids_passed, attempts,
                   files_opened, propositions_seen, junk_seen, failed_entries,
                   last_file, fs_vars, ig_vars, q_vars>>

\* what open + json.load yield for a file: the file ingest.py wrote, read
\* back, or any outcome for a file of another origin
ReadFile(name) ==
    IF name \in DOMAIN dir
    THEN {ReadResult("ok", json_load(dir[name]))}
    ELSE ReadOutcomes

\* history: the file the loop of line 46 is on or has just left, and how it
\* ended: "open" | "skipped" | "indexed" | "raised"
FileSeen(name, kind, status) ==
    [name |-> name, kind |-> kind, status |-> status, n_clean |-> 0, n_junk |-> 0]

\* lines 50-56: reading or parsing raises an exception line 53 catches
IndexFileUnreadable ==
    /\ ix_pc = "file"
    /\ \E r \in ReadFile(json_files[file_i]) :
        /\ r.kind \in CaughtOnRead
        /\ last_file' = FileSeen(json_files[file_i], r.kind, "skipped")
    /\ skipped_files_count' = skipped_files_count + 1
    /\ files_opened' = files_opened + 1
    /\ add_call' = NoAdd
    /\ attempts' = <<>>
    /\ ToNextFile
    /\ UNCHANGED <<json_files, total_vectors_added, records_passed, ids_passed,
                   propositions_seen, junk_seen, failed_entries, fs_vars, ig_vars, q_vars>>

\* lines 50-56: reading raises an exception line 53 does not name; it leaves
\* embed_and_index_documents and main, which has no handler around the call
IndexFileReadRaises ==
    /\ ix_pc = "file"
    /\ \E r \in ReadFile(json_files[file_i]) :
        /\ r.kind \notin CaughtOnRead \cup {"ok"}
        /\ last_file' = FileSeen(json_files[file_i], r.kind, "raised")
    /\ ix_pc' = "crashed"
    /\ files_opened' = files_opened + 1
    /\ add_call' = NoAdd
    /\ attempts' = <<>>
    /\ UNCHANGED <<json_files, file_i, chunks, cleaned_chunks, batch_i,
                   total_vectors_added, skipped_files_count, records_passed, ids_passed,
                   propositions_seen, junk_seen, failed_entries, fs_vars, ig_vars, q_vars>>

\* lines 50-61: the file parses to a falsy value ([], {}, null, 0, "")
IndexFileEmpty ==
    /\ ix_pc = "file"
    /\ \E r \in ReadFile(json_files[file_i]) :
        /\ r.kind = "ok"
        /\ ~Truthy(r.value)
        /\ last_file' = FileSeen(json_files[file_i], "empty", "skipped")
    /\ skipped_files_count' = skipped_files_count + 1
    /\ files_opened' = files_opened + 1
    /\ add_call' = NoAdd
    /\ attempts' = <<>>
    /\ ToNextFile
    /\ UNCHANGED <<json_files, total_vectors_added, records_passed, ids_passed,
                   propositions_seen, junk_seen, failed_entries, fs_vars, ig_vars, q_vars>>

\* lines 50-62: the file parses to a truthy value; the cleaning is next
IndexFileLoaded ==
    /\ ix_pc = "file"
    /\ \E r \in ReadFile(json_files[file_i]) :
        /\ r.kind = "ok"
        /\ Truthy(r.value)
        /\ chunks' = r.value
        /\ last_file' = FileSeen(json_files[file_i], "ok", "open")
    /\ ix_pc' = "clean"
    /\ files_opened' = files_opened + 1
    /\ add_call' = NoAdd
    /\ attempts' = <<>>
    /\ UNCHANGED <<json_files, file_i, cleaned_chunks, batch_i, total_vectors_added,
                   skipped_files_count, records_passed, ids_passed, propositions_seen,
                   junk_seen, failed_entries, fs_vars, ig_vars, q_vars>>

\* line 64 raises (AttributeError, TypeError): nothing catches it
IndexCleanRaises ==
    /\ ix_pc = "clean"
    /\ CleaningRaises(chunks)
    /\ ix_pc' = "crashed"
    /\ last_file' = [last_file EXCEPT !.kind = "bad_entries", !.status = "raised"]
    /\ UNCHANGED <<json_files, file_i, chunks, cleaned_chunks, batch_i,
                   total_vectors_added, skipped_files_count, add_call, records_passed,
                   ids_passed, attempts, files_opened, propositions_seen, junk_seen,
                   failed_entries, fs_vars, ig_vars, q_vars>>

\* lines 63-73: every entry is junk
IndexCleanAllJunk ==
    /\ ix_pc = "clean"
    /\ ~CleaningRaises(chunks)
    /\ CleanChunks(chunks.v) = <<>>
    /\ skipped_files_count' = skipped_files_count + 1
    /\ last_file' = [last_file EXCEPT !.kind = "all_junk", !.status = "skipped"]
    /\ propositions_seen' = propositions_seen + Len(chunks.v)
    /\ junk_seen' = junk_seen + JunkCount(chunks.v)
    /\ ToNextFile
    /\ UNCHANGED <<json_files, total_vectors_added, add_call, records_passed, ids_passed,
                   attempts, files_opened, failed_entries, fs_vars, ig_vars, q_vars>>

\* lines 63-75: some entries survive the cleaning; the batch loop starts
IndexCleanKeeps ==
    /\ ix_pc = "clean"
    /\ ~CleaningRaises(chunks)
    /\ CleanChunks(chunks.v) # <<>>
    /\ cleaned_chunks' = CleanChunks(chunks.v)
    /\ last_file' = [last_file EXCEPT !.status = "indexed",
                                       !.n_clean = Len(CleanChunks(chunks.v)),
                                       !.n_junk = JunkCount(chunks.v)]
    /\ propositions_seen' = propositions_seen + Len(chunks.v)
    /\ junk_seen' = junk_seen + JunkCount(chunks.v)
    /\ ix_pc' = "batch"
    /\ batch_i' = 0
    /\ UNCHANGED <<json_files, file_i, chunks, total_vectors_added,
                   skipped_files_count, add_call, records_passed, ids_passed, attempts,
                   files_opened, failed_entries, fs_vars, ig_vars, q_vars>>

BatchOutcomes == {"ok", "encode_raises", "add_raises"}

\* the range loop of line 75 with a break in the except of line 112
AfterBatch_break(outcome) ==
    IF outcome = "ok" /\ batch_i + INDEX_BATCH_SIZE < Len(cleaned_chunks)
    THEN /\ batch_i' = batch_i + INDEX_BATCH_SIZE
         /\ UNCHANGED <<ix_pc, file_i, chunks, cleaned_chunks>>
    ELSE /\ ix_pc' = "next"
         /\ chunks' = PyNone
         /\ UNCHANGED <<file_i, cleaned_chunks, batch_i>>

\* the range loop of line 75 moves on, whatever the batch did (the except of
\* line 112 only prints); after the last batch it is exhausted (chunks is not
\* read again before line 52 rebinds it)
AfterBatch(outcome) ==
    IF batch_i + INDEX_BATCH_SIZE < Len(cleaned_chunks)
    THEN /\ batch_i' = batch_i + INDEX_BATCH_SIZE
         /\ UNCHANGED <<ix_pc, file_i, chunks, cleaned_chunks>>
    ELSE /\ ix_pc' = "next"
         /\ chunks' = PyNone
         /\ UNCHANGED <<file_i, cleaned_chunks, batch_i>>

\* lines 75-113: one batch is embedded and added, or fails
IndexBatch ==
    /\ ix_pc = "batch"
    /\ LET batch == BatchAt(cleaned_chunks, batch_i)
           sent == [ids |-> BatchIds(json_files[file_i], batch_i, batch),
                    metadatas |-> MetadatasClean(batch),
                    source |-> batch,
                    origins |-> IF json_files[file_i] \in DOMAIN dir_origins
                                THEN [j \in 1..Len(batch) |->
                                        dir_origins[json_files[file_i]][
                                            KeptPositions(chunks.v, 1)[batch_i + j]]]
                                ELSE <<>>]
       IN \E outcome \in BatchOutcomes :
            /\ attempts' = Append(attempts, [i |-> batch_i, n |-> Len(batch),
                                             outcome |-> outcome])
            /\ \/ /\ outcome = "ok"
                  /\ add_call' = sent
                  /\ records_passed' = records_passed + Len(batch)
                  /\ ids_passed' = ids_passed \o sent.ids
                  /\ total_vectors_added' = total_vectors_added + Len(batch)
                  /\ UNCHANGED failed_entries
               \/ \* embedding_model.encode raises: add is never called
                  /\ outcome = "encode_raises"
                  /\ add_call' = NoAdd
                  /\ failed_entries' = failed_entries + Len(batch)
                  /\ UNCHANGED <<records_passed, ids_passed, total_vectors_added>>
               \/ \* chroma_collection.add raises
                  /\ outcome = "add_raises"
                  /\ add_call' = sent
                  /\ records_passed' = records_passed + Len(batch)
                  /\ ids_passed' = ids_passed \o sent.ids
                  /\ failed_entries' = failed_entries + Len(batch)
                  /\ UNCHANGED total_vectors_added
            /\ AfterBatch(outcome)
    /\ UNCHANGED <<json_files, skipped_files_count, files_opened, propositions_seen,
                   junk_seen, last_file, fs_vars, ig_vars, q_vars>>

\* lines 75 and 46: the range loop is exhausted, the file loop moves on
IndexFileDone ==
    /\ ix_pc = "next"
    /\ add_call' = NoAdd
    /\ ToNextFile
    /\ UNCHANGED <<json_files, total_vectors_added, skipped_files_count,
                   records_passed, ids_passed, attempts, files_opened,
                   propositions_seen, junk_seen, failed_entries, last_file,
                   fs_vars, ig_vars, q_vars>>

IndexNext ==
    \/ IndexStart
    \/ IndexFileUnreadable
    \/ IndexFileReadRaises
    \/ IndexFileEmpty
    \/ IndexFileLoaded
    \/ IndexCleanRaises
    \/ IndexCleanAllJunk
    \/ IndexCleanKeeps
    \/ IndexBatch
    \/ IndexFileDone

IndexInit ==
    /\ ix_pc = "idle"
    /\ json_files = <<>>
    /\ file_i = 1
    /\ chunks = PyNone
    /\ cleaned_chunks = <<>>
    /\ batch_i = 0
    /\ total_vectors_added = 0
    /\ skipped_files_count = 0
    /\ add_call = NoAdd
    /\ records_passed = 0
    /\ ids_passed = <<>>
    /\ attempts = <<>>
    /\ files_opened = 0
    /\ propositions_seen = 0
    /\ junk_seen = 0
    /\ failed_entries = 0
    /\ last_file = NoFile

----------------------------------------------------------------------------
(* chunker.py: chunk_batch_into_propositions *)

\* an element of partition_pdf: its text and the metadata the chunker reads
Element(text, filename, page) ==
    [text |-> text, metadata |-> [filename |-> filename, page_number |-> page]]

ElementPool ==
    {Element(TGood, PyStr(PdfA), PyInt(1)),
     Element(TCourt, PyStr(PdfA), PyInt(2)),
     Element(TEmpty, PyNone, PyNone)}

\* an item of the LLM's "propositions" array that is a JSON object
Item(proposition, statement, text) ==
    PyDict([proposition |-> proposition, statement |-> statement, text |-> text])

ItemPool ==
    {PyStr(TCourt),
     PyStr(TOther),
     Item(PyAbsent, PyInt(7), PyStr(TGood))}

\* an array with items of every shape: a string, a number, an empty string,
\* an object with no text key, an object whose first text key is empty, a
\* list, an object with two text keys
OddItems ==
    <<PyStr(TCourt), PyInt(7), PyStr(TEmpty), Item(PyAbsent, PyAbsent, PyAbsent),
      Item(PyStr(TEmpty), PyAbsent, PyStr(TGood)), PyList(<<PyStr(TGood)>>),
      Item(PyStr(TOther), PyStr(TGood), PyInt(7))>>

\* what lines 35-41 may yield: an exception, or the value under
\* "propositions" (PyAbsent when the key is missing)
LlmResult(kind, propositions) == [kind |-> kind, propositions |-> propositions]

LlmResponses ==
    {LlmResult(k, PyAbsent) : k \in {"RequestException", "JSONDecodeError", "not_an_object"}}
        \cup {LlmResult("ok", PyList(l)) : l \in SeqsUpTo(ItemPool, MaxItems)}
        \cup {LlmResult("ok", p) : p \in {PyAbsent, PyNone, PyStr(TCourt), PyList(OddItems)}}

\* a in b, for strings
IsSubstring(a, b) ==
    \E k \in 0..(Len(b) - Len(a)) : SubSeq(b, k + 1, k + Len(a)) = a

\* lines 44-57: the text of an item, <<>> when it has none
TextKeys == <<"proposition", "statement", "text">>

ActualText(prop_item) ==
    IF prop_item.t = "str" THEN prop_item.v
    ELSE IF prop_item.t = "dict"
    THEN LET found == {k \in 1..Len(TextKeys) : Get(prop_item, TextKeys[k]).t = "str"}
         IN  IF found = {} THEN <<>> ELSE Get(prop_item, TextKeys[MinOf(found)]).v
    ELSE <<>>

\* line 63
ElementMatches(el, text) == IsSubstring(el.text, text) \/ IsSubstring(text, el.text)

\* lines 60-65 without the break of line 65: the last match wins
SourceElement_last(batch, text) ==
    LET hits == {k \in 1..Len(batch) : ElementMatches(batch[k], text)}
    IN  IF hits = {} THEN 0 ELSE MaxOf(hits)

\* lines 60-65: the position of the source element in the batch, 0 for None
SourceElement(batch, text) ==
    LET hits == {k \in 1..Len(batch) : ElementMatches(batch[k], text)}
    IN  IF hits = {} THEN 0 ELSE MinOf(hits)

\* lines 67-77 with None for the default of line 68
Enriched_no_default(batch, text) ==
    LET src == SourceElement(batch, text)
    IN  PyDict([text |-> PyStr(text),
                document_name |-> IF src = 0 THEN PyNone
                                  ELSE batch[src].metadata.filename,
                page_number |-> IF src = 0 THEN PyNone
                                ELSE batch[src].metadata.page_number])

\* lines 67-77
Enriched(batch, text) ==
    LET src == SourceElement(batch, text)
    IN  PyDict([text |-> PyStr(text),
                document_name |-> IF src = 0 THEN PyStr(Unknown)
                                  ELSE batch[src].metadata.filename,
                page_number |-> IF src = 0 THEN PyNone
                                ELSE batch[src].metadata.page_number])

\* history: "none" when no element of the batch matches the text, "bare"
\* when the matched element has neither filename nor page number
Origin(batch, text) ==
    IF \A k \in 1..Len(batch) : ~ElementMatches(batch[k], text) THEN "none"
    ELSE LET meta == batch[SourceElement(batch, text)].metadata
         IN  IF meta.filename = PyNone /\ meta.page_number = PyNone
             THEN "bare" ELSE "found"

\* line 44: what the for loop iterates over; a str yields its characters
ItemsOf(propositions) ==
    CASE propositions.t = "list" -> propositions.v
      [] propositions.t = "str" ->
            [k \in 1..Len(propositions.v) |-> PyStr(<<propositions.v[k]>>)]
      [] OTHER -> <<>>

\* lines 28-92 without the check of lines 56-57
chunk_batch_keeps_all(batch, response) ==
    IF response.kind # "ok" THEN PyNone
    ELSE IF response.propositions.t \in {"none", "int"}
    THEN PyNone
    ELSE LET items == ItemsOf(response.propositions)
         IN  PyList([k \in 1..Len(items) |-> Enriched(batch, ActualText(items[k]))])

\* lines 28-92: the list of enriched propositions, or None
chunk_batch_into_propositions(batch, response) ==
    IF response.kind # "ok" THEN PyNone
    ELSE IF response.propositions.t \in {"none", "int"}
    THEN PyNone     \* line 44 raises TypeError, caught by line 90
    ELSE LET items == ItemsOf(response.propositions)
             has_text(item) == ActualText(item) # <<>>
             kept == SelectSeq(items, has_text)
         IN  PyList([k \in 1..Len(kept) |-> Enriched(batch, ActualText(kept[k]))])

----------------------------------------------------------------------------
(* ingest.py: main and process_document *)

PdfNames == {PdfA, PdfAB}

PdfListings ==
    {l \in SeqsUpTo(PdfNames, Cardinality(PdfNames)) :
        \A a, b \in 1..Len(l) : a # b => l[a] # l[b]}

\* what partition_pdf yields for a document: its elements, or an exception.
\* a.pdf may hold any elements; a.b.PDF is one short document
PartitionResult(kind, els) == [kind |-> kind, elements |-> els]

PartitionOutcomes(name) ==
    {PartitionResult("raises", <<>>)}
        \cup IF name = PdfA
             THEN {PartitionResult("ok", l) : l \in SeqsUpTo(ElementPool, MaxElements)}
             ELSE {PartitionResult("ok", l) :
                     l \in {<<Element(TGood, PyStr(PdfA), PyInt(1))>>}}

\* the answers of the LLM while a document is chunked
ResponsesFor(name) ==
    IF name = PdfA THEN LlmResponses
    ELSE {LlmResult("RequestException", PyAbsent), LlmResult("ok", PyList(<<PyStr(TGood)>>))}

\* line 52
OutputName(file_name) == Stem(file_name) \o JsonSuffix

NoDoc == [name |-> <<>>, status |-> "none"]
NoCall == [batch |-> <<>>, response |-> LlmResult("none", PyAbsent), result |-> PyNone]

\* the for loop of line 80 moves on
ToNextDoc ==
    /\ doc_i' = doc_i + 1
    /\ ig_pc' = IF doc_i + 1 > Len(pdf_files) THEN "done" ELSE "doc"
    /\ elements' = <<>>
    /\ elem_i' = 0
    /\ all_propositions' = <<>>
    /\ origins' = <<>>

\* lines 70-78
IngestStart ==
    /\ ig_pc = "idle"
    /\ r2_client' \in BOOLEAN
    /\ \/ \* the source directory does not exist: line 75
          /\ pdf_files' = <<>>
          /\ ig_pc' = "done"
       \/ /\ pdf_files' \in PdfListings
          /\ ig_pc' = IF pdf_files' = <<>> THEN "done" ELSE "doc"
    /\ doc_i' = 1
    /\ UNCHANGED <<elements, elem_i, all_propositions, origins, chunker_calls,
                   batch_results, last_call, uploads, docs_started, last_doc,
                   fs_vars, ix_vars, q_vars>>

\* lines 16-31: partition_pdf raises; process_document returns
DocPartitionFails ==
    /\ ig_pc = "doc"
    /\ \E r \in PartitionOutcomes(pdf_files[doc_i]) : r.kind = "raises"
    /\ last_doc' = [name |-> pdf_files[doc_i], status |-> "partition_failed"]
    /\ docs_started' = docs_started + 1
    /\ chunker_calls' = <<>>
    /\ batch_results' = <<>>
    /\ last_call' = NoCall
    /\ ToNextDoc
    /\ UNCHANGED <<pdf_files, r2_client, uploads, fs_vars, ix_vars, q_vars>>

\* lines 16-34: the elements are extracted
DocPartitioned ==
    /\ ig_pc = "doc"
    /\ \E r \in PartitionOutcomes(pdf_files[doc_i]) :
        /\ r.kind = "ok"
        /\ elements' = r.elements
        \* line 36 has nothing to loop over when there are no elements
        /\ ig_pc' = IF r.elements = <<>> THEN "save" ELSE "batch"
    /\ elem_i' = 0
    /\ all_propositions' = <<>>
    /\ origins' = <<>>
    /\ last_doc' = [name |-> pdf_files[doc_i], status |-> "open"]
    /\ docs_started' = docs_started + 1
    /\ chunker_calls' = <<>>
    /\ batch_results' = <<>>
    /\ last_call' = NoCall
    /\ UNCHANGED <<pdf_files, doc_i, r2_client, uploads, fs_vars, ix_vars, q_vars>>

\* lines 36-40 with > in place of >= at line 40: a batch is sent one element
\* late
NextElementBatch_overfull ==
    SubSeq(elements, elem_i + 1,
           IF elem_i + INGEST_BATCH_SIZE + 1 < Len(elements)
           THEN elem_i + INGEST_BATCH_SIZE + 1 ELSE Len(elements))

\* lines 36-40: the elements appended to element_batch until it is full or
\* the last element is reached
NextElementBatch ==
    SubSeq(elements, elem_i + 1,
           IF elem_i + INGEST_BATCH_SIZE < Len(elements)
           THEN elem_i + INGEST_BATCH_SIZE ELSE Len(elements))

OriginsOf(batch, propositions) ==
    [k \in 1..Len(propositions.v) |-> Origin(batch, Get(propositions.v[k], "text").v)]

\* lines 45-50 with a continue in place of the return of line 47
AfterChunking_continue(batch, propositions) ==
    /\ all_propositions' = IF propositions = PyNone THEN all_propositions
                           ELSE all_propositions \o propositions.v
    /\ origins' = IF propositions = PyNone THEN origins
                  ELSE origins \o OriginsOf(batch, propositions)
    /\ elem_i' = elem_i + Len(batch)
    /\ ig_pc' = IF elem_i + Len(batch) >= Len(elements) THEN "save" ELSE "batch"
    /\ UNCHANGED <<doc_i, elements, last_doc>>

\* lines 45-50: what the result of the chunker makes of the document
AfterChunking(batch, propositions) ==
    IF propositions = PyNone
    THEN \* line 47
         /\ last_doc' = [last_doc EXCEPT !.status = "aborted"]
         /\ ToNextDoc
    ELSE /\ all_propositions' = all_propositions \o propositions.v
         /\ origins' = origins \o OriginsOf(batch, propositions)
         /\ elem_i' = elem_i + Len(batch)
         /\ ig_pc' = IF elem_i + Len(batch) >= Len(elements) THEN "save" ELSE "batch"
         /\ UNCHANGED <<doc_i, elements, last_doc>>

\* lines 36-50: one batch is filled and sent to the chunker
ChunkBatch ==
    /\ ig_pc = "batch"
    /\ LET batch == NextElementBatch
       IN \E response \in ResponsesFor(pdf_files[doc_i]) :
            LET propositions == chunk_batch_into_propositions(batch, response)
            IN  /\ chunker_calls' = Append(chunker_calls,
                                           [start |-> elem_i, n |-> Len(batch),
                                            failed |-> propositions = PyNone,
                                            n_props |-> IF propositions = PyNone THEN 0
                                                        ELSE Len(propositions.v)])
                /\ batch_results' = IF propositions = PyNone THEN <<>>
                                     ELSE Append(batch_results, propositions.v)
                /\ last_call' = [batch |-> batch, response |-> response,
                                 result |-> propositions]
                /\ AfterChunking(batch, propositions)
    /\ UNCHANGED <<pdf_files, r2_client, uploads, docs_started, fs_vars, ix_vars, q_vars>>

\* lines 62-63. get_r2_client and upload_to_r2 are imported from cloud_utils
\* (line 6): the client is an object or None, and the upload is taken to
\* return
UploadIfConfigured(output_filename) ==
    uploads' = IF r2_client /\ all_propositions # <<>>
               THEN Append(uploads, output_filename) ELSE uploads

\* lines 52-63: the propositions are written
DocSaved ==
    /\ ig_pc = "save"
    /\ dir' = [n \in DOMAIN dir \cup {OutputName(pdf_files[doc_i])} |->
                 IF n = OutputName(pdf_files[doc_i]) THEN json_dump(all_propositions)
                 ELSE dir[n]]
    /\ dir_origins' = [n \in DOMAIN dir \cup {OutputName(pdf_files[doc_i])} |->
                         IF n = OutputName(pdf_files[doc_i]) THEN origins
                         ELSE dir_origins[n]]
    /\ UploadIfConfigured(OutputName(pdf_files[doc_i]))
    /\ last_doc' = [last_doc EXCEPT !.status = "saved"]
    /\ last_call' = NoCall
    /\ ToNextDoc
    /\ UNCHANGED <<pdf_files, r2_client, chunker_calls, batch_results, docs_started,
                   dir_foreign, ix_vars, q_vars>>

\* lines 52-63: the write raises (line 58 prints); the upload is still tried
DocSaveFails ==
    /\ ig_pc = "save"
    /\ UploadIfConfigured(OutputName(pdf_files[doc_i]))
    /\ last_doc' = [last_doc EXCEPT !.status = "save_failed"]
    /\ last_call' = NoCall
    /\ batch_results' = <<>>
    /\ ToNextDoc
    /\ UNCHANGED <<pdf_files, r2_client, chunker_calls, docs_started, fs_vars,
                   ix_vars, q_vars>>

IngestNext ==
    \/ IngestStart
    \/ DocPartitionFails
    \/ DocPartitioned
    \/ ChunkBatch
    \/ DocSaved
    \/ DocSaveFails

IngestInit ==
    /\ ig_pc = "idle"
    /\ pdf_files = <<>>
    /\ doc_i = 1
    /\ elements = <<>>
    /\ elem_i = 0
    /\ all_propositions = <<>>
    /\ origins = <<>>
    /\ r2_client = FALSE
    /\ chunker_calls = <<>>
    /\ batch_results = <<>>
    /\ last_call = NoCall
    /\ uploads = <<>>
    /\ docs_started = 0
    /\ last_doc = NoDoc

----------------------------------------------------------------------------
(* query.py: main and generate_response *)

\* the metadata index.py stores with a record: lines 83-101 of index.py
Stored(text, page) ==
    [text |-> PyStr(text), document_name |-> PyStr(DocA), page_number |-> PyInt(page)]

StoredPool == {Stored(TGood, 1), Stored(TOther, 2), Stored(TGood, 3)}

\* what the collection may hold when query.py runs
Collections == {c \in SUBSET StoredPool : Cardinality(c) <= MaxStored}

\* line 85: the n nearest records, all of them when there are fewer, in the
\* order of their distances
TopN(coll, n) ==
    {r \in SeqsUpTo(coll, MinOf({n, Cardinality(coll)})) :
        /\ Len(r) = MinOf({n, Cardinality(coll)})
        /\ \A a, b \in 1..Len(r) : a # b => r[a] # r[b]}

\* line 98: "\n\n".join
RECURSIVE JoinDocs(_)
JoinDocs(docs) ==
    IF docs = <<>> THEN <<>>
    ELSE IF Len(docs) = 1 THEN docs[1]
    ELSE docs[1] \o <<"\n", "\n">> \o JoinDocs(Tail(docs))

\* lines 97-98
ContextOf(res) == JoinDocs([k \in 1..Len(res) |-> res[k].text.v])

\* what requests.post, raise_for_status and response.json of lines 41-45 yield
LlmOutcomes == {"response", "no_response_key", "RequestException", "other_exception"}

\* lines 45-51: what generate_response returns
AnswerOf(outcome) ==
    CASE outcome = "response" -> "answer"
      [] outcome = "no_response_key" -> "could_not_parse"
      [] outcome = "RequestException" -> "could_not_connect"
      [] OTHER -> "unexpected_error"

QueryEnds(how) ==
    /\ q_pc' = "done"
    /\ q_exit' = how

\* lines 57-61: the arguments are parsed
QueryStart ==
    /\ q_pc = "idle"
    /\ q_debug' \in BOOLEAN
    /\ q_num_results' \in 0..MaxNumResults
    /\ collection' \in Collections
    /\ q_pc' = "load"
    /\ UNCHANGED <<results, llm_calls, final_answer, q_exit, ix_vars, ig_vars, fs_vars>>

\* lines 65-68: SentenceTransformer raises
QueryModelLoadFails ==
    /\ q_pc = "load"
    /\ QueryEnds("model_load_failed")
    /\ UNCHANGED <<q_debug, q_num_results, collection, results, llm_calls,
                   final_answer, ix_vars, ig_vars, fs_vars>>

\* lines 65-66
QueryModelLoaded ==
    /\ q_pc = "load"
    /\ q_pc' = "connect"
    /\ UNCHANGED <<q_debug, q_num_results, collection, results, llm_calls,
                   final_answer, q_exit, ix_vars, ig_vars, fs_vars>>

\* lines 72-78: PersistentClient or get_collection raises
QueryConnectFails ==
    /\ q_pc = "connect"
    /\ QueryEnds("connect_failed")
    /\ UNCHANGED <<q_debug, q_num_results, collection, results, llm_calls,
                   final_answer, ix_vars, ig_vars, fs_vars>>

\* lines 72-75
QueryConnected ==
    /\ q_pc = "connect"
    /\ q_pc' = "embed"
    /\ UNCHANGED <<q_debug, q_num_results, collection, results, llm_calls,
                   final_answer, q_exit, ix_vars, ig_vars, fs_vars>>

\* line 82 raises: no handler is around it, main is left with the exception
QueryEncodeRaises ==
    /\ q_pc = "embed"
    /\ q_pc' = "crashed"
    /\ q_exit' = "encode_raised"
    /\ UNCHANGED <<q_debug, q_num_results, collection, results, llm_calls,
                   final_answer, ix_vars, ig_vars, fs_vars>>

\* line 82
QueryEncoded ==
    /\ q_pc = "embed"
    /\ q_pc' = "query"
    /\ UNCHANGED <<q_debug, q_num_results, collection, results, llm_calls,
                   final_answer, q_exit, ix_vars, ig_vars, fs_vars>>

\* lines 84-91: collection.query raises, as it does for n_results < 1
QueryRetrievalFails ==
    /\ q_pc = "query"
    /\ QueryEnds("query_failed")
    /\ UNCHANGED <<q_debug, q_num_results, collection, results, llm_calls,
                   final_answer, ix_vars, ig_vars, fs_vars>>

\* lines 84-88
QueryRetrieved ==
    /\ q_pc = "query"
    /\ q_num_results >= 1
    /\ results' \in TopN(collection, q_num_results)
    /\ q_pc' = "retrieved"
    /\ UNCHANGED <<q_debug, q_num_results, collection, llm_calls, final_answer,
                   q_exit, ix_vars, ig_vars, fs_vars>>

\* lines 93-94
QueryNoContext ==
    /\ q_pc = "retrieved"
    /\ results = <<>>
    /\ QueryEnds("no_context")
    /\ UNCHANGED <<q_debug, q_num_results, collection, results, llm_calls,
                   final_answer, ix_vars, ig_vars, fs_vars>>

\* lines 16-51 and 117: one requests.post, whose failure becomes the answer
QueryGenerates ==
    /\ \E outcome \in LlmOutcomes :
          /\ llm_calls' = Append(llm_calls, ContextOf(results))
          /\ final_answer' = AnswerOf(outcome)
    /\ QueryEnds("answered")
    /\ UNCHANGED <<q_debug, q_num_results, collection, results, ix_vars, ig_vars,
                   fs_vars>>

\* lines 102-111 without the return of line 111
QueryDebug_falls_through ==
    /\ q_pc = "retrieved"
    /\ results # <<>>
    /\ q_debug
    /\ QueryGenerates

\* lines 97-111: the context is printed and main returns
QueryDebug ==
    /\ q_pc = "retrieved"
    /\ results # <<>>
    /\ q_debug
    /\ QueryEnds("debug")
    /\ UNCHANGED <<q_debug, q_num_results, collection, results, llm_calls,
                   final_answer, ix_vars, ig_vars, fs_vars>>

\* lines 97-121
QueryAnswer ==
    /\ q_pc = "retrieved"
    /\ results # <<>>
    /\ ~q_debug
    /\ QueryGenerates

QueryNext ==
    \/ QueryStart
    \/ QueryModelLoadFails
    \/ QueryModelLoaded
    \/ QueryConnectFails
    \/ QueryConnected
    \/ QueryEncodeRaises
    \/ QueryEncoded
    \/ QueryRetrievalFails
    \/ QueryRetrieved
    \/ QueryNoContext
    \/ QueryDebug
    \/ QueryAnswer

QueryInit ==
    /\ q_pc = "idle"
    /\ q_debug = FALSE
    /\ q_num_results = 0
    /\ collection = {}
    /\ results = <<>>
    /\ llm_calls = <<>>
    /\ final_answer = "none"
    /\ q_exit = "none"

----------------------------------------------------------------------------
(* Specifications *)

\* index.py run on a directory of any content
SpecIndexInit ==
    /\ IndexInit
    /\ IngestInit
    /\ QueryInit
    /\ dir = <<>>
    /\ dir_origins = <<>>
    /\ dir_foreign = TRUE

SpecIndex == SpecIndexInit /\ [][IndexNext]_vars

\* ingest.py run on a directory of PDFs, processed_documents being empty
SpecIngestInit ==
    /\ IndexInit
    /\ IngestInit
    /\ QueryInit
    /\ dir = <<>>
    /\ dir_origins = <<>>
    /\ dir_foreign = FALSE

SpecIngest == SpecIngestInit /\ [][IngestNext]_vars

\* ingest.py, then index.py on what it wrote. Every file json.dump wrote is
\* read back as a list of dicts, so the steps of index.py that raise on a file
\* are never enabled here and are left out
PipelineIndexStart == ig_pc = "done" /\ IndexStart

PipelineNext ==
    \/ IngestNext
    \/ PipelineIndexStart
    \/ IndexFileEmpty
    \/ IndexFileLoaded
    \/ IndexCleanAllJunk
    \/ IndexCleanKeeps
    \/ IndexBatch
    \/ IndexFileDone

SpecPipeline == SpecIngestInit /\ [][PipelineNext]_vars

\* one invocation of query.py
SpecQuery == SpecIngestInit /\ [][QueryNext]_vars

----------------------------------------------------------------------------
(* Properties of index.py *)

\* the text of every record the latest add call passed
PassedTexts == {add_call.metadatas[j].text : j \in 1..Len(add_call.metadatas)}

\* the entries of the file the loop is on, when it parsed to a list of objects
FileEntries ==
    IF chunks.t = "list" /\ ~CleaningRaises(chunks)
    THEN {chunks.v[k] : k \in 1..Len(chunks.v)}
    ELSE {}

ShorterThan10(s) == Len(s) < 10

\* an opening bracket with its closing bracket anywhere after it
HasPlaceholder(s) ==
    \E a, b \in 1..Len(s) :
        a < b /\ <<s[a], s[b]>> \in {<<"[", "]">>, <<"{", "}">>}

\* nothing but "(Page: " ... ")"
IsPageArtifact(s) ==
    /\ Len(s) > Len(PagePrefix)
    /\ SubSeq(s, 1, Len(PagePrefix)) = PagePrefix
    /\ s[Len(s)] = ")"

NoLineBreak(s, a, b) == \A k \in a..b : s[k] # "\n"

\* the same, with the two brackets on one line
HasPlaceholderOnOneLine(s) ==
    \E a, b \in 1..Len(s) :
        /\ a < b
        /\ <<s[a], s[b]>> \in {<<"[", "]">>, <<"{", "}">>}
        /\ NoLineBreak(s, a, b)

\* the same, on one line
IsPageArtifactOnOneLine(s) == IsPageArtifact(s) /\ NoLineBreak(s, 1, Len(s))

ClaimedJunk(text) ==
    text.t = "str" /\ (ShorterThan10(text.v) \/ HasPlaceholder(text.v)
                          \/ IsPageArtifact(text.v))

AmendedJunk(text) ==
    text.t = "str" /\ (ShorterThan10(text.v) \/ HasPlaceholderOnOneLine(text.v)
                          \/ IsPageArtifactOnOneLine(text.v))

\* C1 as claimed: no text that is shorter than 10 characters, holds a [...] or
\* {...} placeholder or is only a (Page: ...) artifact is ever passed to the
\* vector collection.
C1_ClaimedJunkNeverPassed == \A t \in PassedTexts : ~ClaimedJunk(t)

\* C1, amended: every entry of a processed file whose text is shorter than 10
\* characters, holds a [...] or {...} placeholder on one line, or is only a
\* one-line (Page: ...) artifact is junk for is_junk, is not among the
\* cleaned entries, and no record passed to the vector collection carries it.
C1_JunkNeverPassed ==
    /\ \A e \in FileEntries :
          AmendedJunk(Get(e, "text"))
              => /\ is_junk(Get(e, "text"))
                 /\ \A k \in 1..Len(cleaned_chunks) : cleaned_chunks[k] # e
    /\ \A t \in PassedTexts : ~AmendedJunk(t)
    /\ \A k \in 1..Len(add_call.source) : ~AmendedJunk(Get(add_call.source[k], "text"))

\* C1 witness: the entries that survived the cleaning of a file with two junk
\* entries were passed to the vector collection.
C1_Witness ==
    /\ add_call.ids # <<>>
    /\ last_file.status = "indexed"
    /\ last_file.n_junk = 2
    /\ Len(add_call.ids) = last_file.n_clean

\* what the sanitization must make of one key of a source entry
Sanitized(entry, key) ==
    LET value == IF key \in DOMAIN entry.v THEN entry.v[key] ELSE PyAbsent
    IN  IF value \in {PyNone, PyAbsent}
        THEN IF key = "page_number" THEN PyInt(0) ELSE PyStr(<<>>)
        ELSE value

MetaKeys == {"document_name", "page_number", "text"}

\* C2: every metadata record passed to the vector collection holds the three
\* keys, none of them None: a page_number that is None or absent in the entry
\* is 0, any other None or absent field is the empty string, every other
\* value is the entry's own.
C2_NoNullMetadata ==
    /\ Len(add_call.metadatas) = Len(add_call.source)
    /\ \A j \in 1..Len(add_call.metadatas) :
          /\ DOMAIN add_call.metadatas[j] = MetaKeys
          /\ \A key \in MetaKeys :
                /\ add_call.metadatas[j][key] \notin {PyNone, PyAbsent}
                /\ add_call.metadatas[j][key] = Sanitized(add_call.source[j], key)

\* C2 witness: a record was passed whose entry had a None page_number and a
\* None document_name, and one whose entry lacked both keys.
C2_Witness ==
    /\ \E j \in 1..Len(add_call.source) :
          /\ add_call.source[j].v.page_number = PyNone
          /\ add_call.source[j].v.document_name = PyNone
          /\ add_call.metadatas[j].page_number = PyInt(0)
    /\ \E j \in 1..Len(add_call.source) :
          /\ add_call.source[j].v.page_number = PyAbsent
          /\ add_call.source[j].v.document_name = PyAbsent

\* the entries the batch loop has still to reach
EntriesToGo == IF ix_pc = "batch" THEN Len(cleaned_chunks) - batch_i ELSE 0

\* C5: as long as no batch has failed, the vectors added, and the records
\* passed to collection.add, are the propositions of the files processed less
\* those classified as junk (less the entries of the current file the batch
\* loop has still to reach).
C5_VectorsAdded ==
    failed_entries = 0 =>
        /\ total_vectors_added = (propositions_seen - junk_seen) - EntriesToGo
        /\ records_passed = total_vectors_added

\* C5 witness: a run ended without a failed batch, over files that held junk
\* and more than one batch of propositions.
C5_Witness ==
    /\ ix_pc = "done"
    /\ failed_entries = 0
    /\ junk_seen >= 2
    /\ total_vectors_added > INDEX_BATCH_SIZE
    /\ files_opened = 2

\* the n of the batches tried so far in the current file
RECURSIVE AttemptedEntries(_)
AttemptedEntries(as) ==
    IF as = <<>> THEN 0 ELSE Head(as).n + AttemptedEntries(Tail(as))

\* C6: each batch of a file is tried once, in order, whether or not an
\* earlier one raised; the entries of a batch that raised are not counted in
\* total_vectors_added; a raising batch never ends the run, and a run that
\* ends normally has opened every file.
C6_FailedBatchSkipped ==
    /\ \A a \in 1..Len(attempts) : attempts[a].i = (a - 1) * INDEX_BATCH_SIZE
    /\ ix_pc = "batch" =>
          /\ batch_i = Len(attempts) * INDEX_BATCH_SIZE
          /\ batch_i < Len(cleaned_chunks)
    /\ (last_file.status = "indexed" /\ ix_pc # "batch") =>
          AttemptedEntries(attempts) = last_file.n_clean
    /\ total_vectors_added + failed_entries + EntriesToGo = propositions_seen - junk_seen
    /\ ix_pc = "crashed" => last_file.status = "raised"
    /\ ix_pc = "done" => files_opened = Len(json_files)

\* C6 witness: in the second file, the first batch raised and the second was
\* added, after a batch of the first file had raised.
C6_Witness ==
    /\ files_opened = 2
    /\ Len(attempts) = 2
    /\ attempts[1].outcome # "ok"
    /\ attempts[2].outcome = "ok"
    /\ failed_entries > attempts[1].n
    /\ total_vectors_added > 0

\* C7 as claimed: a file that cannot be read or parsed, is empty, or whose
\* entries cannot be processed is counted as skipped, and the run goes on to
\* the files after it.
C7_FileFailureSkipped ==
    /\ last_file.kind \in {"JSONDecodeError", "IOError", "UnicodeDecodeError",
                           "empty", "bad_entries", "all_junk"}
          => last_file.status = "skipped"
    /\ ix_pc # "crashed"

----------------------------------------------------------------------------
(* Properties of chunker.py and ingest.py *)

NonEmptyStr(x) == x.t = "str" /\ x.v # <<>>

\* the item is the string s, or an object holding s under a text-bearing key
Carries(item, s) ==
    IF item.t = "str" THEN item.v = s
    ELSE IF item.t = "dict"
    THEN \E key \in {"proposition", "statement", "text"} : Get(item, key) = PyStr(s)
    ELSE FALSE

\* the item has some non-empty text
Recognizable(item) ==
    \E s \in {TGood, TOther, TCourt} : Carries(item, s)

ResultTexts(result) == [k \in 1..Len(result.v) |-> Get(result.v[k], "text")]

\* C3: every proposition chunk_batch_into_propositions returns has a text
\* that is a non-empty string and that an item of the response carries; no
\* more propositions are returned than the response has items with a
\* non-empty text; and every entry of a file process_document wrote has a
\* non-empty text
C3_TextNonEmpty ==
    /\ last_call.result # PyNone =>
          /\ \A k \in 1..Len(last_call.result.v) :
                NonEmptyStr(Get(last_call.result.v[k], "text"))
          /\ last_call.response.propositions.t = "list" =>
                LET items == last_call.response.propositions.v
                IN  /\ \A k \in 1..Len(last_call.result.v) :
                          \E i \in 1..Len(items) :
                              Carries(items[i], Get(last_call.result.v[k], "text").v)
                    /\ Len(last_call.result.v)
                          <= Cardinality({i \in 1..Len(items) : Recognizable(items[i])})
    /\ \A n \in DOMAIN dir :
          \A k \in 1..Len(json_load(dir[n]).v) :
              NonEmptyStr(Get(json_load(dir[n]).v[k], "text"))

\* a response with items of every shape has been chunked: the items without
\* text are gone, the two with text are returned
C3_Witness ==
    /\ last_call.response.propositions = PyList(OddItems)
    /\ last_call.result # PyNone
    /\ ResultTexts(last_call.result) = <<PyStr(TCourt), PyStr(TOther)>>
    /\ all_propositions # <<>>

\* C4: a batch for which the chunker returned None is the last call made for
\* its document (no later batch, no second call for the same elements); the
\* document is left at once with its propositions dropped, no file of its
\* name is written and none uploaded; the loop of main is at the next
\* document, or done when there is none
C4_FailureAbortsDocument ==
    /\ \A k \in 1..Len(chunker_calls) :
          chunker_calls[k].failed => k = Len(chunker_calls)
    /\ \A j, k \in 1..Len(chunker_calls) :
          j # k => chunker_calls[j].start # chunker_calls[k].start
    /\ (chunker_calls # <<>> /\ chunker_calls[Len(chunker_calls)].failed) =>
          /\ last_doc.status = "aborted"
          /\ all_propositions = <<>>
          /\ OutputName(last_doc.name) \notin DOMAIN dir
          /\ \A u \in 1..Len(uploads) : uploads[u] # OutputName(last_doc.name)
          /\ doc_i >= 2 /\ pdf_files[doc_i - 1] = last_doc.name
          /\ ig_pc = IF doc_i <= Len(pdf_files) THEN "doc" ELSE "done"

\* the second batch of a document failed after the first had yielded
\* propositions, an R2 client is configured and another document is waiting
C4_Witness ==
    /\ Len(chunker_calls) = 2
    /\ chunker_calls[1].n_props > 0
    /\ chunker_calls[2].failed
    /\ last_call.result = PyNone
    /\ r2_client
    /\ ig_pc = "doc"
    /\ doc_i = 2

Hits(batch, text) ==
    {k \in 1..Len(batch) :
        IsSubstring(batch[k].text, text) \/ IsSubstring(text, batch[k].text)}

\* C10: every proposition the chunker returns carries the filename and page
\* number of the first element of the batch whose text contains its text or
\* is contained in it; when there is none it carries 'unknown' and None
C10_FirstMatchWins ==
    last_call.result # PyNone =>
        \A k \in 1..Len(last_call.result.v) :
            LET prop == last_call.result.v[k]
                hits == Hits(last_call.batch, Get(prop, "text").v)
            IN  IF hits = {}
                THEN /\ Get(prop, "document_name") = PyStr(Unknown)
                     /\ Get(prop, "page_number") = PyNone
                ELSE \E h \in hits :
                        /\ \A g \in hits : h <= g
                        /\ Get(prop, "document_name") = last_call.batch[h].metadata.filename
                        /\ Get(prop, "page_number") = last_call.batch[h].metadata.page_number

\* one call returned a proposition two elements with different pages match,
\* and a proposition no element matches
C10_Witness ==
    /\ last_call.result # PyNone
    /\ \E k \in 1..Len(last_call.result.v) :
          \E g, h \in Hits(last_call.batch, Get(last_call.result.v[k], "text").v) :
              /\ g < h
              /\ last_call.batch[g].metadata.page_number
                    # last_call.batch[h].metadata.page_number
    /\ \E k \in 1..Len(last_call.result.v) :
          Hits(last_call.batch, Get(last_call.result.v[k], "text").v) = {}

RECURSIVE Concat(_)
Concat(seqs) == IF seqs = <<>> THEN <<>> ELSE Head(seqs) \o Concat(Tail(seqs))

\* C12: while a document is chunked with no failed call, the calls made so
\* far took the elements in order, BATCH_SIZE at a time, each batch being the
\* next slice of the elements; every batch is non-empty and holds at most
\* BATCH_SIZE elements, and only the batch that ends the document may hold
\* fewer; when the loop is over every element has been sent; the propositions
\* collected, and the file written for the document, are the per-batch results
\* put together in batch order; a document with no elements has no call
C12_BatchesCoverElements ==
    /\ Len(batch_results) <= Len(chunker_calls)
    /\ ig_pc \in {"batch", "save"} =>
          /\ Len(batch_results) = Len(chunker_calls)
          /\ \A k \in 1..Len(chunker_calls) :
                /\ ~chunker_calls[k].failed
                /\ chunker_calls[k].start = (k - 1) * INGEST_BATCH_SIZE
                /\ chunker_calls[k].n >= 1
                /\ chunker_calls[k].n <= INGEST_BATCH_SIZE
                /\ (k < Len(chunker_calls) \/ ig_pc = "batch") =>
                        chunker_calls[k].n = INGEST_BATCH_SIZE
                /\ chunker_calls[k].start + chunker_calls[k].n <= Len(elements)
                /\ chunker_calls[k].n_props = Len(batch_results[k])
          /\ chunker_calls = <<>> => elem_i = 0 /\ last_call = NoCall
          /\ chunker_calls # <<>> =>
                LET last == chunker_calls[Len(chunker_calls)]
                IN  /\ elem_i = last.start + last.n
                    /\ last_call.batch = SubSeq(elements, last.start + 1, last.start + last.n)
                    /\ last_call.result = PyList(batch_results[Len(batch_results)])
          /\ IF ig_pc = "save" THEN elem_i = Len(elements) ELSE elem_i < Len(elements)
          /\ elements = <<>> => chunker_calls = <<>>
          /\ all_propositions = Concat(batch_results)
    /\ last_doc.status = "saved" =>
          /\ Len(batch_results) = Len(chunker_calls)
          /\ OutputName(last_doc.name) \in DOMAIN dir
          /\ dir[OutputName(last_doc.name)] = json_dump(Concat(batch_results))

\* a document of one full batch and a smaller last one, whose two results
\* differ and are both in the file written
C12_Witness ==
    /\ last_doc.status = "saved"
    /\ Len(chunker_calls) = 2
    /\ chunker_calls[1].n = INGEST_BATCH_SIZE
    /\ chunker_calls[2].n < INGEST_BATCH_SIZE
    /\ batch_results[1] # <<>>
    /\ batch_results[2] # <<>>
    /\ batch_results[1] # batch_results[2]
    /\ Len(dir[OutputName(last_doc.name)].v) = Len(batch_results[1]) + Len(batch_results[2])

----------------------------------------------------------------------------
(* Properties of the pipeline: chunker.py, ingest.py, then index.py *)

\* the records of the latest chroma_collection.add call whose proposition
\* found its element in the way o
RecordsOfOrigin(o) == {j \in 1..Len(add_call.origins) : add_call.origins[j] = o}

\* C8 as claimed: a record whose proposition matched no element, or matched
\* an element with no filename and no page number, reaches the collection
\* with document_name '' and page_number 0
C8_UnknownSourceIsEmptyAndZero ==
    \A j \in RecordsOfOrigin("none") \cup RecordsOfOrigin("bare") :
        /\ add_call.metadatas[j].document_name = PyStr(<<>>)
        /\ add_call.metadatas[j].page_number = PyInt(0)

\* C8 as the code has it: a record whose proposition matched no element
\* reaches the collection with document_name 'unknown' and page_number 0; one
\* whose matched element has no filename and no page number reaches it with
\* document_name '' and page_number 0
C8_UnknownSourceDefaults ==
    /\ \A j \in RecordsOfOrigin("none") :
          /\ add_call.metadatas[j].document_name = PyStr(Unknown)
          /\ add_call.metadatas[j].page_number = PyInt(0)
    /\ \A j \in RecordsOfOrigin("bare") :
          /\ add_call.metadatas[j].document_name = PyStr(<<>>)
          /\ add_call.metadatas[j].page_number = PyInt(0)

\* one add call holds a record of a proposition no element matched and a
\* record of a proposition whose element has no metadata
C8_Witness ==
    /\ add_call.ids # <<>>
    /\ RecordsOfOrigin("none") # {}
    /\ RecordsOfOrigin("bare") # {}

----------------------------------------------------------------------------
(* Properties of query.py *)

\* the ways main ends before a retrieval has returned
FailedEarly == {"model_load_failed", "connect_failed", "encode_raised", "query_failed"}

----------------------------------------------------------------------------
(* Properties of the ids of index.py *)

\* the entries of the file the batch loop is on that is_junk lets through, in
\* the order of the file
Survivors ==
    LET survives(e) == ~is_junk(Get(e, "text"))
    IN  SelectSeq(chunks.v, survives)

\* the name of a processed file without its .json
WithoutJson(name) == SubSeq(name, 1, Len(name) - Len(JsonSuffix))

NoRepeat(seq) == \A a, b \in 1..Len(seq) : a # b => seq[a] # seq[b]

\* the entries of the batches whose embedding raised: they were never passed
EncodeFailed == failed_entries - (records_passed - total_vectors_added)

FirstOfCall == AttemptedEntries(attempts) - attempts[Len(attempts)].n

============================================================================
